---- MODULE Spec2Model ----
(***************************************************************************)
(* Weatherscan data layer: the OpenWeatherMapAdapter (per-key cache with   *)
(* TTL and stale-on-error fallback, snapshot aggregation, batch fan-out)   *)
(* and the RainViewerAdapter manifest cache, as a state machine.           *)
(*                                                                         *)
(* Scheduling is the JavaScript event loop: a step of the model is one     *)
(* synchronous run of code together with the promise reactions it          *)
(* triggers; a call is suspended while its request is in flight.           *)
(***************************************************************************)
EXTENDS Integers, Sequences, FiniteSets, TLC

VARIABLES
    now,        \* Date.now(), milliseconds
    cacheTTL,   \* OpenWeatherMapAdapter.cacheTTL
    cache,      \* OpenWeatherMapAdapter.cache: Map cacheKey -> {data, timestamp}
    fetches,    \* the _fetchWithCache invocations (their promise and locals)
    snapshots,  \* the getCompleteWeatherData invocations
    batches,    \* the getBatchWeatherData invocations
    rvCache,    \* RainViewerAdapter.cache: {maps, timestamp}
    mapsCalls,  \* the getAvailableMaps invocations
    clearLog,   \* history: what the last clearCache() of each adapter removed
    series,     \* the getRadarTimestamps / getRadarSeries invocations
    returned,   \* the last call of a synchronous function: <<name, [params, value]>>
    page        \* api-config.js: apiConfig, weatherAPI, radarAPI, and the display's start

vars == <<now, cacheTTL, cache, fetches, snapshots, batches,
          rvCache, mapsCalls, clearLog, series, returned, page>>

-----------------------------------------------------------------------------
(* Bounds of the model *)

MaxFetches == 3      \* direct getOneCallData / getAvailableMaps calls
MaxSnapshots == 2    \* getCompleteWeatherData calls, direct or through a batch
MaxBatches == 1      \* getBatchWeatherData calls
MaxTicks == 2        \* clock advances of five minutes
MaxSeriesCalls == 1  \* getRadarTimestamps / getRadarSeries calls

-----------------------------------------------------------------------------
(* Program constants *)

CacheTTLDefault == 10 * 60 * 1000
RainViewerCacheTTL == 5 * 60 * 1000

\* The clock is observed every five minutes, so that an entry's age is below,
\* equal to, or above each TTL in use.
TimeSteps == {5 * 60 * 1000}
MaxNow == MaxTicks * 5 * 60 * 1000

\* Arguments given to setCacheTTL
TTLChoices == {5 * 60 * 1000}

\* Locations (lat, lon)
Home == <<40, -74>>
Locations == {Home, <<34, -118>>}

\* What a parsed response body looks like to the normalization functions:
\* "full" has every field they read, "broken" lacks one they dereference.
Shapes == {"full", "broken"}

-----------------------------------------------------------------------------
(* Values *)

\* Optional values (undefined / null) are sequences of length 0 or 1.
Null == <<>>
Some(v) == <<v>>
IsNull(o) == o = <<>>
The(o) == o[1]

\* URL and cache key of the two weather endpoints
OneCallUrl(lat, lon) == <<"onecall", lat, lon, "imperial", "minutely">>
OneCallKey(lat, lon) == <<"onecall", lat, lon>>
AirQualityUrl(lat, lon) == <<"air_pollution", lat, lon>>
AirQualityKey(lat, lon) == <<"airquality", lat, lon>>
CacheKeys ==
    {OneCallKey(l[1], l[2]) : l \in Locations} \cup {AirQualityKey(l[1], l[2]) : l \in Locations}
MapsUrl == <<"weather-maps.json">>

\* URL and cache key of the two geocoding endpoints. The limit is a default
\* parameter: 5 (search) or 1 (reverse) when the argument is undefined.
DefaultSearchLimit == 5
DefaultReverseLimit == 1
SearchUrl(query, limit) ==
    <<"geo/1.0/direct", query, IF IsNull(limit) THEN DefaultSearchLimit ELSE The(limit)>>
SearchKey(query) == <<"search", query>>
ReverseUrl(lat, lon, limit) ==
    <<"geo/1.0/reverse", lat, lon, IF IsNull(limit) THEN DefaultReverseLimit ELSE The(limit)>>
ReverseKey(lat, lon) == <<"reverse", lat, lon>>

\* A parsed response body: the URL it answers, the request (call number) it
\* is the response to, and its shape. Each request gets its own response.
Body(url, n, shape) == [url |-> url, seq |-> n, shape |-> shape]

\* The radar section of the imagery manifest: absent, or {past, nowcast},
\* each absent or a list of frames {time, path}.
FrameTimes == {100, 200, 300}
FrameLists == UNION {[1..n -> FrameTimes] : n \in 0..2}
Frames(times) == [i \in DOMAIN times |-> [time |-> times[i]]]
FrameSections == {Null} \cup {Some(Frames(l)) : l \in FrameLists}
RadarSections ==
    {Null} \cup {Some([past |-> p, nowcast |-> n]) : p \in FrameSections, n \in FrameSections}

\* The parsed manifest a request returns
Manifest(n, radar) == Body(MapsUrl, n, "full") @@ [radar |-> radar]

\* Error objects
HttpError(url) == [kind |-> "http", url |-> url]
NetworkError(url) == [kind |-> "network", url |-> url]
ParseError(url) == [kind |-> "parse", url |-> url]
TypeError(url) == [kind |-> "type", url |-> url]
ReferenceError(name) == [kind |-> "reference", url |-> name]

-----------------------------------------------------------------------------
(* OpenWeatherMapAdapter._fetchWithCache *)

\* this.cache.get(cacheKey)
CacheGet(c, key) == IF key \in DOMAIN c THEN Some(c[key]) ELSE Null

\* this.cache.set(cacheKey, {data, timestamp: Date.now()})
CacheSet(c, key, data, t) ==
    [k \in DOMAIN c \cup {key} |->
        IF k = key THEN [data |-> data, timestamp |-> t] ELSE c[k]]

\* Faulty variant, for comparison: an entry whose age equals the TTL still counts as fresh
IsFresh_Inclusive(cached, t, ttl) ==
    /\ ~IsNull(cached)
    /\ t - The(cached).timestamp <= ttl

\* Faulty variant, for comparison: the comparison is reversed
IsFresh_Reversed(cached, t, ttl) ==
    /\ ~IsNull(cached)
    /\ t - The(cached).timestamp > ttl

\* cached && (Date.now() - cached.timestamp < this.cacheTTL)
IsFresh(cached, t, ttl) ==
    /\ ~IsNull(cached)
    /\ t - The(cached).timestamp < ttl

\* Faulty variant, for comparison: a call that finds a request for its key
\* in flight waits for that one instead of issuing its own
FetchWithCache_Dedup(url, key) ==
    LET cached == CacheGet(cache, key)
        call == [url |-> url, key |-> key, cached |-> cached,
                 error |-> Null, warned |-> FALSE,
                 purged |-> clearLog.owmPurged, first |-> key \in clearLog.owmNext]
    IN  IF IsFresh(cached, now, cacheTTL)
        THEN call @@ [pc |-> "done", state |-> "fulfilled",
                      value |-> Some(The(cached).data), requests |-> 0]
        ELSE call @@ [pc |-> "fetch", state |-> "pending", value |-> Null,
                      requests |-> IF \E i \in DOMAIN fetches :
                                        fetches[i].key = key /\ fetches[i].pc = "fetch"
                                   THEN 0 ELSE 1]

\* The synchronous part of _fetchWithCache: look the key up, return the
\* cached data if fresh, else issue the request and suspend.
FetchWithCache(url, key) ==
    LET cached == CacheGet(cache, key)
        call == [url |-> url, key |-> key, cached |-> cached,
                 error |-> Null, warned |-> FALSE,
                 purged |-> clearLog.owmPurged, first |-> key \in clearLog.owmNext]
    IN  IF IsFresh(cached, now, cacheTTL)
        THEN call @@ [pc |-> "done", state |-> "fulfilled",
                      value |-> Some(The(cached).data), requests |-> 0]
        ELSE call @@ [pc |-> "fetch", state |-> "pending",
                      value |-> Null, requests |-> 1]

\* Faulty variant, for comparison: the catch block always rethrows
CatchFetchError_Rethrow(f, err) ==
    [f EXCEPT !.pc = "done", !.state = "rejected", !.error = Some(err)]

\* Faulty variant, for comparison: with nothing cached, the catch block returns an empty object
CatchFetchError_Default(f, err) ==
    IF ~IsNull(f.cached)
    THEN [f EXCEPT !.pc = "done", !.state = "fulfilled", !.error = Some(err),
                   !.value = Some(The(f.cached).data), !.warned = TRUE]
    ELSE [f EXCEPT !.pc = "done", !.state = "fulfilled", !.error = Some(err),
                   !.value = Some([url |-> f.url, seq |-> 0, shape |-> "broken"])]

\* The catch block: console.error the caught error; serve the entry read at
\* the start of the call, whatever its age, with a console.warn; rethrow when
\* there was none.
CatchFetchError(f, err) ==
    IF ~IsNull(f.cached)
    THEN [f EXCEPT !.pc = "done", !.state = "fulfilled", !.error = Some(err),
                   !.value = Some(The(f.cached).data), !.warned = TRUE]
    ELSE [f EXCEPT !.pc = "done", !.state = "rejected", !.error = Some(err)]

\* The success path after response.json(): return data
ReturnData(f, data) ==
    [f EXCEPT !.pc = "done", !.state = "fulfilled", !.value = Some(data)]

-----------------------------------------------------------------------------
(* Aggregator: getCompleteWeatherData and getBatchWeatherData *)

Settled(p) == p.state # "pending"

\* The snapshot object built from the two payloads. The transform functions
\* dereference fields of the payload, so a payload lacking them throws.
BuildSnapshot(s, one, aq) ==
    LET oneCallData == The(one.value)
        \* .catch(e => null) on the air-quality promise
        airQualityData == IF aq.state = "fulfilled" THEN aq.value ELSE Null
    IN  IF oneCallData.shape # "full"
        THEN [s EXCEPT !.state = "rejected",
                       !.error = Some(TypeError(oneCallData.url))]
        ELSE IF ~IsNull(airQualityData) /\ The(airQualityData).shape # "full"
        THEN [s EXCEPT !.state = "rejected",
                       !.error = Some(TypeError(The(airQualityData).url))]
        ELSE [s EXCEPT !.state = "fulfilled",
                       !.value = Some([oneCall |-> oneCallData,
                                       airQuality |-> airQualityData])]

\* Faulty variant, for comparison: the air-quality promise has no .catch, so its rejection rejects
\* the Promise.all
SettleSnapshot_AqFatal(s, fs) ==
    LET one == fs[s.oneCall]
        aq == fs[s.airQuality]
    IN  IF Settled(s) THEN s
        ELSE IF one.state = "rejected"
        THEN [s EXCEPT !.state = "rejected", !.error = one.error]
        ELSE IF aq.state = "rejected"
        THEN [s EXCEPT !.state = "rejected", !.error = aq.error]
        ELSE IF one.state = "fulfilled" /\ Settled(aq)
        THEN BuildSnapshot(s, one, aq)
        ELSE s

\* Faulty variant, for comparison: Promise.allSettled instead of Promise.all, a failed conditions
\* fetch giving a snapshot without conditions
SettleSnapshot_Partial(s, fs) ==
    LET one == fs[s.oneCall]
        aq == fs[s.airQuality]
    IN  IF Settled(s) \/ ~Settled(one) \/ ~Settled(aq) THEN s
        ELSE IF one.state = "rejected"
        THEN [s EXCEPT !.state = "fulfilled",
                       !.value = Some([oneCall |-> [url |-> one.url, seq |-> 0, shape |-> "broken"],
                                       airQuality |-> Null])]
        ELSE BuildSnapshot(s, one, aq)

\* await Promise.all([getOneCallData, getAirQuality.catch(...)]) and what
\* follows it: rejects as soon as the conditions promise rejects, otherwise
\* continues once both have settled.
SettleSnapshot(s, fs) ==
    LET one == fs[s.oneCall]
        aq == fs[s.airQuality]
    IN  IF Settled(s) THEN s
        ELSE IF one.state = "rejected"
        THEN [s EXCEPT !.state = "rejected", !.error = one.error]
        ELSE IF one.state = "fulfilled" /\ Settled(aq)
        THEN BuildSnapshot(s, one, aq)
        ELSE s

SettleSnapshots(ss, fs) == [i \in DOMAIN ss |-> SettleSnapshot(ss[i], fs)]

\* Element i of the batch result: .catch(error => null) on each snapshot
BatchElement(s) == IF s.state = "fulfilled" THEN s.value ELSE Null

\* Faulty variant, for comparison: the failed locations are filtered out of the result
SettleBatch_DropsFailed(b, ss) ==
    IF Settled(b) \/ \E i \in DOMAIN b.members : ~Settled(ss[b.members[i]])
    THEN b
    ELSE [b EXCEPT !.state = "fulfilled",
                   !.value = Some(SelectSeq([i \in DOMAIN b.members |->
                                                BatchElement(ss[b.members[i]])],
                                            LAMBDA e : ~IsNull(e)))]

\* Faulty variant, for comparison: Promise.race semantics, the batch resolves with the first
\* member to settle
SettleBatch_FirstSettled(b, ss) ==
    IF Settled(b) \/ \A i \in DOMAIN b.members : ~Settled(ss[b.members[i]])
    THEN b
    ELSE [b EXCEPT !.state = "fulfilled",
                   !.value = Some([i \in DOMAIN b.members |->
                                      BatchElement(ss[b.members[i]])])]

\* await Promise.all(promises): fulfils once every member has settled
SettleBatch(b, ss) ==
    IF Settled(b) \/ \E i \in DOMAIN b.members : ~Settled(ss[b.members[i]])
    THEN b
    ELSE [b EXCEPT !.state = "fulfilled",
                   !.value = Some([i \in DOMAIN b.members |->
                                      BatchElement(ss[b.members[i]])])]

SettleBatches(bs, ss) == [i \in DOMAIN bs |-> SettleBatch(bs[i], ss)]

\* The promise reactions that run after the fetches changed
React(fs) ==
    LET ss == SettleSnapshots(snapshots, fs) IN
    /\ fetches' = fs
    /\ snapshots' = ss
    /\ batches' = SettleBatches(batches, ss)

-----------------------------------------------------------------------------
(* RainViewerAdapter.getAvailableMaps *)

\* this.cache.maps && (Date.now() - this.cache.timestamp < this.cacheTTL)
MapsFresh(rc, t) ==
    /\ ~IsNull(rc.maps)
    /\ t - rc.timestamp < RainViewerCacheTTL

\* The synchronous part of getAvailableMaps
GetMaps ==
    LET call == [error |-> Null, warned |-> FALSE,
                 purged |-> clearLog.rvPurged, first |-> clearLog.rvNext]
    IN  IF MapsFresh(rvCache, now)
        THEN call @@ [pc |-> "done", state |-> "fulfilled",
                      value |-> rvCache.maps, requests |-> 0]
        ELSE call @@ [pc |-> "fetch", state |-> "pending",
                      value |-> Null, requests |-> 1]

\* Faulty variant, for comparison: the catch block always rethrows
CatchMapsError_Rethrow(m, rc, err) ==
    [m EXCEPT !.pc = "done", !.state = "rejected", !.error = Some(err)]

\* The catch block: console.error the caught error; serve whatever manifest
\* the cache holds now, with a console.warn; rethrow when it holds none.
CatchMapsError(m, rc, err) ==
    IF ~IsNull(rc.maps)
    THEN [m EXCEPT !.pc = "done", !.state = "fulfilled", !.error = Some(err),
                   !.value = rc.maps, !.warned = TRUE]
    ELSE [m EXCEPT !.pc = "done", !.state = "rejected", !.error = Some(err)]

-----------------------------------------------------------------------------
(* RainViewerAdapter.getRadarTimestamps and getRadarSeries *)

\* array.includes(x)
Includes(array, x) == \E i \in DOMAIN array : array[i] = x

\* Faulty variant, for comparison: current is the last of all timestamps
RadarTimestamps_CurrentFromAll(maps) ==
    LET past == IF IsNull(maps.radar) \/ IsNull(The(maps.radar).past)
                THEN << >> ELSE The(The(maps.radar).past)
        nowcast == IF IsNull(maps.radar) \/ IsNull(The(maps.radar).nowcast)
                   THEN << >> ELSE The(The(maps.radar).nowcast)
        pastTimestamps == [i \in DOMAIN past |-> past[i].time]
        nowcastTimestamps == [i \in DOMAIN nowcast |-> nowcast[i].time]
        all == pastTimestamps \o nowcastTimestamps
    IN  [past |-> pastTimestamps,
         nowcast |-> nowcastTimestamps,
         all |-> all,
         current |-> IF Len(all) > 0 THEN Some(all[Len(all)]) ELSE Null]

\* getRadarTimestamps after `await this.getAvailableMaps()`
RadarTimestamps(maps) ==
    LET \* maps.radar?.past || []
        past == IF IsNull(maps.radar) \/ IsNull(The(maps.radar).past)
                THEN << >> ELSE The(The(maps.radar).past)
        nowcast == IF IsNull(maps.radar) \/ IsNull(The(maps.radar).nowcast)
                   THEN << >> ELSE The(The(maps.radar).nowcast)
        pastTimestamps == [i \in DOMAIN past |-> past[i].time]
        nowcastTimestamps == [i \in DOMAIN nowcast |-> nowcast[i].time]
    IN  [past |-> pastTimestamps,
         nowcast |-> nowcastTimestamps,
         all |-> pastTimestamps \o nowcastTimestamps,
         current |-> IF Len(pastTimestamps) > 0
                     THEN Some(pastTimestamps[Len(pastTimestamps)]) ELSE Null]

\* getRadarSeries after `await this.getRadarTimestamps()`
RadarSeries(timestamps) ==
    [series |-> [i \in DOMAIN timestamps.all |->
                    [ts |-> timestamps.all[i],
                     isPast |-> Includes(timestamps.past, timestamps.all[i])]],
     current |-> timestamps.current]

\* A call awaiting getAvailableMaps continues when that call settles: it
\* computes its result from the manifest, or is rejected with the same error.
SettleSeriesCall(c, ms) ==
    LET m == ms[c.maps] IN
    IF Settled(c) \/ ~Settled(m) THEN c
    ELSE IF m.state = "rejected"
    THEN [c EXCEPT !.state = "rejected", !.error = m.error]
    ELSE [c EXCEPT !.state = "fulfilled",
                   !.value = Some(IF c.op = "getRadarTimestamps"
                                  THEN RadarTimestamps(The(m.value))
                                  ELSE RadarSeries(RadarTimestamps(The(m.value))))]

SettleSeries(sr, ms) == [i \in DOMAIN sr |-> SettleSeriesCall(sr[i], ms)]

-----------------------------------------------------------------------------
(* Normalization functions of the OpenWeatherMapAdapter *)

\* Strings that are examined character by character are sequences of
\* one-character strings.
UpperCase == <<"A", "B", "C", "D", "E", "F", "G", "H", "I", "J", "K", "L", "M",
               "N", "O", "P", "Q", "R", "S", "T", "U", "V", "W", "X", "Y", "Z">>
LowerCase == <<"a", "b", "c", "d", "e", "f", "g", "h", "i", "j", "k", "l", "m",
               "n", "o", "p", "q", "r", "s", "t", "u", "v", "w", "x", "y", "z">>

\* String.prototype.toLowerCase
ToLowerCase(str) ==
    [i \in DOMAIN str |->
        IF \E k \in DOMAIN UpperCase : UpperCase[k] = str[i]
        THEN LowerCase[CHOOSE k \in DOMAIN UpperCase : UpperCase[k] = str[i]]
        ELSE str[i]]

\* String.prototype.includes
StrIncludes(str, sub) ==
    \E k \in 0..(Len(str) - Len(sub)) : SubSeq(str, k + 1, k + Len(sub)) = sub

\* String.prototype.endsWith
EndsWith(str, suffix) ==
    /\ Len(str) >= Len(suffix)
    /\ SubSeq(str, Len(str) - Len(suffix) + 1, Len(str)) = suffix

\* a || b on optional numbers: undefined, null and 0 are falsy
OrElse(a, b) == IF IsNull(a) \/ The(a) = 0 THEN b ELSE a

\* The identifiers that have an entry in iconMap
IconIds ==
    {200, 201, 202, 210, 211, 212, 221, 230, 231, 232,
     300, 301, 302, 310, 311, 312, 313, 314, 321,
     500, 501, 502, 503, 504, 511, 520, 521, 522, 531,
     600, 601, 602, 611, 612, 613, 615, 616, 620, 621, 622,
     701, 711, 721, 731, 741, 751, 761, 762, 771, 781,
     800, 801, 802, 803, 804}

IconMap(isNight) ==
    [id \in IconIds |->
        CASE id \in {200, 201, 202, 230, 231, 232} -> 38
          [] id \in {210, 211, 212, 221} -> 37
          [] id \in {300, 301, 302, 310, 311, 312, 313, 314, 321} -> 9
          [] id \in {500, 520, 521} -> 11
          [] id \in {501, 502, 503, 504, 522, 531} -> 12
          [] id \in {511, 611, 612, 613} -> 10
          [] id \in {600, 620, 621} -> 14
          [] id \in {601, 622} -> 16
          [] id = 602 -> 41
          [] id \in {615, 616} -> 5
          [] id \in {701, 741} -> 20
          [] id = 711 -> 22
          [] id \in {721, 731, 751, 761, 762} -> 19
          [] id = 771 -> 23
          [] id = 781 -> 0
          [] id = 800 -> IF isNight THEN 31 ELSE 32
          [] id = 801 -> IF isNight THEN 33 ELSE 30
          [] id \in {802, 803} -> IF isNight THEN 27 ELSE 28
          [] id = 804 -> 26]

\* The N/A icon
DefaultIconCode == 44

\* Faulty variant, for comparison: the table lookup has no default
mapOWMIconToWeathercom_NoDefault(weatherId, iconCode) ==
    LET isNight == ~IsNull(iconCode) /\ EndsWith(The(iconCode), <<"n">>)
        iconMap == IconMap(isNight)
    IN  IF weatherId \in DOMAIN iconMap THEN Some(iconMap[weatherId]) ELSE Null

\* mapOWMIconToWeathercom: iconMap[weatherId] || 44. The result is optional
\* (Null stands for undefined).
mapOWMIconToWeathercom(weatherId, iconCode) ==
    LET isNight == ~IsNull(iconCode) /\ EndsWith(The(iconCode), <<"n">>)
        iconMap == IconMap(isNight)
    IN  OrElse(IF weatherId \in DOMAIN iconMap THEN Some(iconMap[weatherId]) ELSE Null,
               Some(DefaultIconCode))

categories == <<"Good", "Fair", "Moderate", "Poor", "Very Poor">>

\* Faulty variant, for comparison: the index is used without the - 1
getAQICategory_ZeroBased(aqi) ==
    IF ~IsNull(aqi) /\ The(aqi) + 1 \in DOMAIN categories
    THEN categories[The(aqi) + 1]
    ELSE "Unknown"

\* _getAQICategory: categories[aqi - 1] || 'Unknown'. (JavaScript arrays are
\* indexed from 0, sequences from 1; a missing aqi gives the index NaN.)
getAQICategory(aqi) ==
    IF ~IsNull(aqi) /\ (The(aqi) - 1) + 1 \in DOMAIN categories
    THEN categories[(The(aqi) - 1) + 1]
    ELSE "Unknown"

\* transformAirQuality: null for a missing payload, a missing or an empty
\* list; otherwise the first reading's index, category, pollutants and the
\* primary pollutant. A reading without components throws a TypeError
\* (components.pm2_5 of undefined). Only pm10 moves maxValue.
transformAirQuality(owmAirQuality) ==
    IF \/ IsNull(owmAirQuality)
       \/ IsNull(The(owmAirQuality).list)
       \/ Len(The(The(owmAirQuality).list)) = 0
    THEN [threw |-> FALSE, value |-> Null]
    ELSE LET aqi == The(The(owmAirQuality).list)[1] IN
         IF IsNull(aqi.components)
         THEN [threw |-> TRUE, value |-> Null]
         ELSE LET components == The(aqi.components)
                  afterPM10 == IF components.pm10 > components.pm2_5
                               THEN [primaryPollutant |-> "PM10", maxValue |-> components.pm10]
                               ELSE [primaryPollutant |-> "PM2.5", maxValue |-> components.pm2_5]
                  afterOzone == IF components.o3 > afterPM10.maxValue
                                THEN [afterPM10 EXCEPT !.primaryPollutant = "Ozone"]
                                ELSE afterPM10
                  afterNO2 == IF components.no2 > afterOzone.maxValue
                              THEN [afterOzone EXCEPT !.primaryPollutant = "NO2"]
                              ELSE afterOzone
              IN  [threw |-> FALSE,
                   value |-> Some([airQualityCategoryIndex |-> aqi.main.aqi,
                                   airQualityCategory |-> getAQICategory(aqi.main.aqi),
                                   airQualityIndex |-> aqi.main.aqi,
                                   primaryPollutant |-> afterNO2.primaryPollutant,
                                   pollutants |-> [pm25 |-> components.pm2_5,
                                                   pm10 |-> components.pm10,
                                                   o3 |-> components.o3,
                                                   no2 |-> components.no2,
                                                   so2 |-> components.so2,
                                                   co |-> components.co]])]

\* Faulty variant, for comparison: "severe" is tested before "extreme"
getAlertSeverity_SevereFirst(tags) ==
    IF IsNull(tags) THEN 3
    ELSE IF \E i \in DOMAIN The(tags) :
                StrIncludes(ToLowerCase(The(tags)[i]), <<"s", "e", "v", "e", "r", "e">>)
    THEN 3
    ELSE IF \E i \in DOMAIN The(tags) :
                StrIncludes(ToLowerCase(The(tags)[i]), <<"e", "x", "t", "r", "e", "m", "e">>)
    THEN 4
    ELSE 2

\* _getAlertSeverity
getAlertSeverity(tags) ==
    IF IsNull(tags) THEN 3
    ELSE IF \E i \in DOMAIN The(tags) :
                StrIncludes(ToLowerCase(The(tags)[i]), <<"e", "x", "t", "r", "e", "m", "e">>)
    THEN 4
    ELSE IF \E i \in DOMAIN The(tags) :
                StrIncludes(ToLowerCase(The(tags)[i]), <<"s", "e", "v", "e", "r", "e">>)
    THEN 3
    ELSE 2

\* The limits of the forecast lists in a snapshot
HourlyLimit == 48
DailyLimit == 8

\* Faulty variant, for comparison: the end index is included
Slice_Inclusive(array, start, end) ==
    SubSeq(array, start + 1, IF end + 1 < Len(array) THEN end + 1 ELSE Len(array))

\* Array.prototype.slice(start, end) for 0 <= start <= end
Slice(array, start, end) ==
    SubSeq(array, start + 1, IF end < Len(array) THEN end ELSE Len(array))

\* _formatLocalTime: new Date(timestamp * 1000).toISOString()
FormatLocalTime(timestamp) == <<"ISO", timestamp * 1000>>

\* transformHourlyForecast / transformDailyForecast, as far as the entries'
\* time goes: one output entry per input entry, in the same order
TransformHourlyForecast(owmHourly) ==
    [i \in DOMAIN owmHourly |-> [validTimeLocal |-> FormatLocalTime(owmHourly[i].dt)]]

TransformDailyForecast(owmDaily) ==
    [i \in DOMAIN owmDaily |-> [validTimeLocal |-> FormatLocalTime(owmDaily[i].dt)]]

\* The hourly and daily lists of the object getCompleteWeatherData returns
CompleteWeatherData(oneCallData) ==
    [hourly |-> TransformHourlyForecast(Slice(oneCallData.hourly, 0, HourlyLimit)),
     daily |-> TransformDailyForecast(Slice(oneCallData.daily, 0, DailyLimit))]

-----------------------------------------------------------------------------
(* RainViewerAdapter.getRadarTileUrl *)

TileBaseUrl == <<"https://tilecache.rainviewer.com">>

\* The URL, as the list of its parts
getRadarTileUrl(timestamp, z, x, y, options) ==
    LET size == OrElse(options.size, Some(256))
        color == OrElse(options.color, Some(1))
        smooth == OrElse(options.smooth, Some(1))
    IN  [base |-> TileBaseUrl, layer |-> <<"v2", "radar">>,
         timestamp |-> timestamp, z |-> z, x |-> x, y |-> y,
         size |-> The(size), color |-> The(color), smooth |-> The(smooth)]


\* createRadarTileLayer: the Leaflet URL template (z, x, y are placeholders)
\* and the layer options; opacity in tenths
createRadarTileLayer(timestamp, options) ==
    LET size == OrElse(options.size, Some(256))
        color == OrElse(options.color, Some(1))
        smooth == OrElse(options.smooth, Some(1))
    IN  [url |-> [base |-> TileBaseUrl, layer |-> <<"v2", "radar">>,
                  timestamp |-> timestamp, z |-> "{z}", x |-> "{x}", y |-> "{y}",
                  size |-> The(size), color |-> The(color), smooth |-> The(smooth)],
         options |-> [tileSize |-> The(size),
                      opacity |-> The(OrElse(options.opacity, Some(6))),
                      zIndex |-> The(OrElse(options.zIndex, Some(200))),
                      maxZoom |-> 12]]

\* getColorSchemes: the color schemes by number
getColorSchemes ==
    [c \in 0..8 |->
        CASE c = 0 -> "Original"
          [] c = 1 -> "Universal Blue"
          [] c = 2 -> "TITAN"
          [] c = 3 -> "The Weather Channel"
          [] c = 4 -> "Meteored"
          [] c = 5 -> "NEXRAD Level III"
          [] c = 6 -> "RAINBOW @ SELEX-SI"
          [] c = 7 -> "Dark Sky"
          [] c = 8 -> "Black & White"]

-----------------------------------------------------------------------------
(* api-config.js: the configuration and the two adapter globals *)

\* A JavaScript string is truthy when it is defined and not empty
Truthy(str) == ~IsNull(str) /\ The(str) # ""

\* Faulty variant, for comparison: the imagery adapter is created for the satellite feature only
initializeAPIs_SatelliteOnly(p) ==
    IF p.openWeatherMapKey = "" \/ ~p.adapterScript
    THEN [p EXCEPT !.lastInit = Some(FALSE)]
    ELSE [p EXCEPT !.weatherAPI = Some("OpenWeatherMapAdapter"),
                   !.radarAPI = IF p.satellite THEN Some("RainViewerAdapter") ELSE @,
                   !.lastInit = Some(TRUE)]

\* initializeAPIs: false without a key; false when the constructor throws
\* (the adapter classes are not defined: the ReferenceError is caught) with
\* nothing assigned; otherwise both globals are assigned and the result is
\* true. lastInit records the value returned.
initializeAPIs(p) ==
    IF p.openWeatherMapKey = ""
    THEN [p EXCEPT !.lastInit = Some(FALSE)]
    ELSE IF ~p.adapterScript
    THEN [p EXCEPT !.lastInit = Some(FALSE)]
    ELSE [p EXCEPT !.weatherAPI = Some("OpenWeatherMapAdapter"),
                   !.radarAPI = IF p.radar \/ p.satellite
                                THEN Some("RainViewerAdapter") ELSE @,
                   !.lastInit = Some(TRUE)]

\* areAPIsReady
areAPIsReady(p) == ~IsNull(p.weatherAPI) /\ (~p.radar \/ ~IsNull(p.radarAPI))

-----------------------------------------------------------------------------
(* Initial state: both adapters just constructed; api-config.js not yet run *)

Init ==
    /\ now = 0
    /\ cacheTTL = CacheTTLDefault
    /\ cache = << >>
    /\ fetches = << >>
    /\ snapshots = << >>
    /\ batches = << >>
    /\ rvCache = [maps |-> Null, timestamp |-> 0]
    /\ mapsCalls = << >>
    /\ clearLog = [owmPurged |-> {}, owmNext |-> {}, rvPurged |-> {}, rvNext |-> FALSE]
    /\ series = << >>
    /\ returned = Null
    /\ page = [loaded |-> FALSE, openWeatherMapKey |-> "", radar |-> TRUE,
               satellite |-> TRUE, adapterScript |-> FALSE,
               weatherAPI |-> Null, radarAPI |-> Null, lastInit |-> Null,
               timerFired |-> FALSE, dispatched |-> FALSE, display |-> "idle"]

-----------------------------------------------------------------------------
(* Environment and administrative operations *)

Tick(d) ==
    /\ now + d <= MaxNow
    /\ now' = now + d
    /\ UNCHANGED <<page, series, returned, cacheTTL, cache, fetches, snapshots, batches,
                   rvCache, mapsCalls, clearLog>>

SetCacheTTL(milliseconds) ==
    /\ cacheTTL' = milliseconds
    /\ UNCHANGED <<page, series, returned, now, cache, fetches, snapshots, batches,
                   rvCache, mapsCalls, clearLog>>

\* Faulty variant, for comparison: clearCache() leaves the entries in place
Cleared_KeepsAll(c) == c

\* The map after this.cache.clear()
Cleared(c) == << >>

InFlight(calls) == \E i \in DOMAIN calls : calls[i].pc # "done"

\* OpenWeatherMapAdapter.clearCache
ClearCacheOp ==
    /\ cache' = Cleared(cache)
    /\ UNCHANGED <<page, series, returned, now, cacheTTL, fetches, snapshots, batches, rvCache, mapsCalls>>

ClearCache ==
    /\ ClearCacheOp
    /\ UNCHANGED clearLog

\* clearCache, with the history of what it removed
ClearCacheLogged ==
    /\ ClearCacheOp
    /\ clearLog' = [clearLog EXCEPT
                      !.owmPurged = @ \cup {cache[k].data : k \in DOMAIN cache},
                      !.owmNext = IF InFlight(fetches) THEN {} ELSE CacheKeys]

\* RainViewerAdapter.clearCache, with the history of what it removed
ClearMapsCacheLogged ==
    /\ rvCache' = [maps |-> Null, timestamp |-> 0]
    /\ clearLog' = [clearLog EXCEPT
                      !.rvPurged = @ \cup {rvCache.maps[j] : j \in DOMAIN rvCache.maps},
                      !.rvNext = ~InFlight(mapsCalls)]
    /\ UNCHANGED <<page, series, returned, now, cacheTTL, cache, fetches, snapshots, batches, mapsCalls>>

-----------------------------------------------------------------------------
(* Calls *)

Calls == Len(fetches) + Len(mapsCalls)

\* A call for `key` is no longer the next one after the clear
Called(key) == [clearLog EXCEPT !.owmNext = @ \ {key}]

GetOneCallData(lat, lon) ==
    /\ Calls < MaxFetches
    /\ React(Append(fetches, FetchWithCache(OneCallUrl(lat, lon), OneCallKey(lat, lon))))
    /\ clearLog' = Called(OneCallKey(lat, lon))
    /\ UNCHANGED <<page, series, returned, now, cacheTTL, cache, rvCache, mapsCalls>>

SearchLocation(query, limit) ==
    /\ Calls < MaxFetches
    /\ React(Append(fetches, FetchWithCache(SearchUrl(query, limit), SearchKey(query))))
    /\ clearLog' = Called(SearchKey(query))
    /\ UNCHANGED <<page, series, returned, now, cacheTTL, cache, rvCache, mapsCalls>>

ReverseGeocode(lat, lon, limit) ==
    /\ Calls < MaxFetches
    /\ React(Append(fetches, FetchWithCache(ReverseUrl(lat, lon, limit), ReverseKey(lat, lon))))
    /\ clearLog' = Called(ReverseKey(lat, lon))
    /\ UNCHANGED <<page, series, returned, now, cacheTTL, cache, rvCache, mapsCalls>>

GetAvailableMaps ==
    /\ Calls < MaxFetches
    /\ mapsCalls' = Append(mapsCalls, GetMaps)
    /\ clearLog' = [clearLog EXCEPT !.rvNext = FALSE]
    /\ UNCHANGED <<page, series, returned, now, cacheTTL, cache, fetches, snapshots, batches,
                   rvCache>>

\* getRadarTimestamps / getRadarSeries: the synchronous part is that of
\* getAvailableMaps; served from the cache, the call continues at once.
SeriesCall(op) ==
    /\ Calls < MaxFetches
    /\ mapsCalls' = Append(mapsCalls, GetMaps)
    /\ series' = SettleSeries(
                    Append(series, [op |-> op, maps |-> Len(mapsCalls) + 1,
                                    state |-> "pending", value |-> Null, error |-> Null]),
                    mapsCalls')
    /\ clearLog' = [clearLog EXCEPT !.rvNext = FALSE]
    /\ UNCHANGED <<page, returned, now, cacheTTL, cache, fetches, snapshots, batches, rvCache>>

GetRadarTimestamps ==
    /\ Len(series) < MaxSeriesCalls
    /\ SeriesCall("getRadarTimestamps")

GetRadarSeries ==
    /\ Len(series) < MaxSeriesCalls
    /\ SeriesCall("getRadarSeries")

\* getSatelliteSeries: its first statement evaluates the free identifier
\* getSatelliteTimestamps (not this.getSatelliteTimestamps), which nothing
\* declares: a ReferenceError is thrown before any call is made, and the
\* promise returned is rejected with it. No manifest fetch is started.
GetSatelliteSeries ==
    /\ Len(series) < MaxSeriesCalls
    /\ series' = Append(series, [op |-> "getSatelliteSeries", maps |-> 0,
                                 state |-> "rejected", value |-> Null,
                                 error |-> Some(ReferenceError(<<"getSatelliteTimestamps">>))])
    /\ UNCHANGED <<page, returned, now, cacheTTL, cache, fetches, snapshots, batches,
                   rvCache, mapsCalls, clearLog>>

\* getCompleteWeatherData: the two fetches start in the same synchronous run
StartSnapshot(fs, lat, lon) ==
    [lat |-> lat, lon |-> lon, oneCall |-> Len(fs) + 1, airQuality |-> Len(fs) + 2,
     state |-> "pending", value |-> Null, error |-> Null]

StartFetches(fs, lat, lon) ==
    fs \o << FetchWithCache(OneCallUrl(lat, lon), OneCallKey(lat, lon)),
             FetchWithCache(AirQualityUrl(lat, lon), AirQualityKey(lat, lon)) >>

GetCompleteWeatherData(lat, lon) ==
    /\ Len(snapshots) < MaxSnapshots
    /\ LET fs == StartFetches(fetches, lat, lon)
           ss == SettleSnapshots(Append(snapshots, StartSnapshot(fetches, lat, lon)), fs)
       IN  /\ fetches' = fs
           /\ snapshots' = ss
           /\ batches' = SettleBatches(batches, ss)
    /\ clearLog' = [clearLog EXCEPT
                      !.owmNext = @ \ {OneCallKey(lat, lon), AirQualityKey(lat, lon)}]
    /\ UNCHANGED <<page, series, returned, now, cacheTTL, cache, rvCache, mapsCalls>>

\* getBatchWeatherData: locations.map starts one snapshot per location, in order
RECURSIVE BatchFetches(_, _)
BatchFetches(fs, locations) ==
    IF locations = << >> THEN fs
    ELSE BatchFetches(StartFetches(fs, Head(locations)[1], Head(locations)[2]),
                      Tail(locations))

RECURSIVE BatchSnapshots(_, _, _)
BatchSnapshots(ss, fs, locations) ==
    IF locations = << >> THEN ss
    ELSE BatchSnapshots(
            Append(ss, StartSnapshot(fs, Head(locations)[1], Head(locations)[2])),
            StartFetches(fs, Head(locations)[1], Head(locations)[2]),
            Tail(locations))

GetBatchWeatherData(locations) ==
    /\ Len(batches) < MaxBatches
    /\ Len(snapshots) + Len(locations) <= MaxSnapshots
    /\ LET fs == BatchFetches(fetches, locations)
           ss == SettleSnapshots(BatchSnapshots(snapshots, fetches, locations), fs)
           b == [locations |-> locations,
                 members |-> [i \in DOMAIN locations |-> Len(snapshots) + i],
                 state |-> "pending", value |-> Null]
       IN  /\ fetches' = fs
           /\ snapshots' = ss
           /\ batches' = SettleBatches(Append(batches, b), ss)
    /\ clearLog' = [clearLog EXCEPT
                      !.owmNext = @ \ ({OneCallKey(locations[i][1], locations[i][2]) : i \in DOMAIN locations}
                                       \cup {AirQualityKey(locations[i][1], locations[i][2]) : i \in DOMAIN locations})]
    /\ UNCHANGED <<page, series, returned, now, cacheTTL, cache, rvCache, mapsCalls>>

-----------------------------------------------------------------------------
(* The network answers a request of the OpenWeatherMapAdapter.             *)
(* Between the arrival of an ok response and the end of response.json()    *)
(* the call reads and writes nothing, so the two are one step here.        *)

\* Faulty variant, for comparison: a failed request evicts the key's entry
FetchRejects_Evicts(i) ==
    /\ fetches[i].pc = "fetch"
    /\ React([fetches EXCEPT ![i] = CatchFetchError(@, NetworkError(@.url))])
    /\ cache' = [k \in DOMAIN cache \ {fetches[i].key} |-> cache[k]]
    /\ UNCHANGED <<page, series, returned, now, cacheTTL, rvCache, mapsCalls, clearLog>>

\* Faulty variant, for comparison: after a first failure the request is
\* issued once more
FetchRejects_RetriesOnce(i) ==
    /\ fetches[i].pc = "fetch"
    /\ React([fetches EXCEPT ![i] =
                IF @.requests < 2
                THEN [@ EXCEPT !.requests = @ + 1]
                ELSE CatchFetchError(@, NetworkError(@.url))])
    /\ UNCHANGED <<page, series, returned, now, cacheTTL, cache, rvCache, mapsCalls, clearLog>>

\* fetch() rejects (transport error)
FetchRejects(i) ==
    /\ fetches[i].pc = "fetch"
    /\ React([fetches EXCEPT ![i] = CatchFetchError(@, NetworkError(@.url))])
    /\ UNCHANGED <<page, series, returned, now, cacheTTL, cache, rvCache, mapsCalls, clearLog>>

\* fetch() resolves with a non-2xx response: !response.ok throws
FetchNotOk(i) ==
    /\ fetches[i].pc = "fetch"
    /\ React([fetches EXCEPT ![i] = CatchFetchError(@, HttpError(@.url))])
    /\ UNCHANGED <<page, series, returned, now, cacheTTL, cache, rvCache, mapsCalls, clearLog>>

\* Faulty variant, for comparison: a body that cannot be parsed is replaced by an empty object,
\* which is stored and returned
JsonRejects_StoresDefault(i) ==
    /\ fetches[i].pc = "fetch"
    /\ LET data == [url |-> fetches[i].url, seq |-> 0, shape |-> "broken"] IN
        /\ cache' = CacheSet(cache, fetches[i].key, data, now)
        /\ React([fetches EXCEPT ![i] =
                    [ReturnData(@, data) EXCEPT !.error = Some(ParseError(fetches[i].url))]])
    /\ UNCHANGED <<page, series, returned, now, cacheTTL, rvCache, mapsCalls, clearLog>>

\* response.json() rejects (malformed body)
JsonRejects(i) ==
    /\ fetches[i].pc = "fetch"
    /\ React([fetches EXCEPT ![i] = CatchFetchError(@, ParseError(@.url))])
    /\ UNCHANGED <<page, series, returned, now, cacheTTL, cache, rvCache, mapsCalls, clearLog>>

\* response.json() resolves: store the body stamped with the current time
JsonResolves(i, shape) ==
    /\ fetches[i].pc = "fetch"
    /\ LET data == Body(fetches[i].url, i, shape) IN
        /\ cache' = CacheSet(cache, fetches[i].key, data, now)
        /\ React([fetches EXCEPT ![i] = ReturnData(@, data)])
    /\ UNCHANGED <<page, series, returned, now, cacheTTL, rvCache, mapsCalls, clearLog>>

-----------------------------------------------------------------------------
(* The network answers a request of the RainViewerAdapter *)

MapsFetchRejects(i) ==
    /\ mapsCalls[i].pc = "fetch"
    /\ mapsCalls' = [mapsCalls EXCEPT ![i] =
                        CatchMapsError(@, rvCache, NetworkError(MapsUrl))]
    /\ series' = SettleSeries(series, mapsCalls')
    /\ UNCHANGED <<page, returned, now, cacheTTL, cache, fetches, snapshots, batches,
                   rvCache, clearLog>>

MapsFetchNotOk(i) ==
    /\ mapsCalls[i].pc = "fetch"
    /\ mapsCalls' = [mapsCalls EXCEPT ![i] =
                        CatchMapsError(@, rvCache, HttpError(MapsUrl))]
    /\ series' = SettleSeries(series, mapsCalls')
    /\ UNCHANGED <<page, returned, now, cacheTTL, cache, fetches, snapshots, batches,
                   rvCache, clearLog>>

MapsJsonRejects(i) ==
    /\ mapsCalls[i].pc = "fetch"
    /\ mapsCalls' = [mapsCalls EXCEPT ![i] =
                        CatchMapsError(@, rvCache, ParseError(MapsUrl))]
    /\ series' = SettleSeries(series, mapsCalls')
    /\ UNCHANGED <<page, returned, now, cacheTTL, cache, fetches, snapshots, batches,
                   rvCache, clearLog>>

MapsJsonResolves(i, radar) ==
    /\ mapsCalls[i].pc = "fetch"
    /\ LET data == Manifest(i, radar) IN
        /\ rvCache' = [maps |-> Some(data), timestamp |-> now]
        /\ mapsCalls' = [mapsCalls EXCEPT ![i] = ReturnData(@, data)]
    /\ series' = SettleSeries(series, mapsCalls')
    /\ UNCHANGED <<page, returned, now, cacheTTL, cache, fetches, snapshots, batches, clearLog>>

-----------------------------------------------------------------------------
(* The page: api-config.js and the weather display *)

data == <<now, cacheTTL, cache, fetches, snapshots, batches,
          rvCache, mapsCalls, clearLog, series, returned>>

\* The top level of api-config.js runs: apiConfig with the feature flags as
\* configured, the key taken from a truthy global api_key, both adapter
\* globals null. adapterScript tells whether the adapter classes are defined.
LoadApiConfig(api_key, radar, satellite, adapterScript) ==
    /\ ~page.loaded
    /\ page' = [page EXCEPT !.loaded = TRUE,
                            !.openWeatherMapKey = IF Truthy(api_key) THEN The(api_key) ELSE "",
                            !.radar = radar, !.satellite = satellite,
                            !.adapterScript = adapterScript,
                            !.weatherAPI = Null, !.radarAPI = Null]
    /\ UNCHANGED data

\* A call of initializeAPIs() by another script
InitializeAPIs ==
    /\ page.loaded
    /\ page' = initializeAPIs(page)
    /\ UNCHANGED data

\* The DOMContentLoaded handler's timer fires: the key is refreshed from the
\* global api_key, initializeAPIs() is called, and when it returns true the
\* 'apisReady' event is dispatched, whose listener starts the display.
AutoInitialize(api_key) ==
    /\ page.loaded /\ ~page.timerFired
    /\ LET updated == [page EXCEPT !.timerFired = TRUE,
                                   !.openWeatherMapKey =
                                        IF Truthy(api_key) THEN The(api_key) ELSE @]
           p == initializeAPIs(updated)
       IN  page' = IF p.lastInit = Some(TRUE)
                   THEN [p EXCEPT !.dispatched = TRUE,
                                  !.display = IF @ = "waiting" THEN "started" ELSE @]
                   ELSE p
    /\ UNCHANGED data

\* initializeWeatherDisplay: start at once when the APIs are ready, otherwise
\* wait for 'apisReady'
InitializeWeatherDisplay ==
    /\ page.loaded /\ page.display = "idle"
    /\ page' = [page EXCEPT !.display = IF areAPIsReady(page) THEN "started" ELSE "waiting"]
    /\ UNCHANGED data

-----------------------------------------------------------------------------
(* Specifications *)

\* The provider client's cache under direct calls
NextCache ==
    \/ \E d \in TimeSteps : Tick(d)
    \/ \E ms \in TTLChoices : SetCacheTTL(ms)
    \/ ClearCache
    \/ \E l \in Locations : GetOneCallData(l[1], l[2])
    \/ \E i \in DOMAIN fetches : FetchNotOk(i)
    \/ \E i \in DOMAIN fetches : FetchRejects(i)
    \/ \E i \in DOMAIN fetches : JsonResolves(i, "full")
    \/ \E i \in DOMAIN fetches : JsonRejects(i)

SpecCache == Init /\ [][NextCache]_vars

\* Both adapters' caches and their clearCache()
NextClear ==
    \/ ClearCacheLogged
    \/ ClearMapsCacheLogged
    \/ GetOneCallData(Home[1], Home[2])
    \/ GetAvailableMaps
    \/ \E i \in DOMAIN fetches : FetchNotOk(i)
    \/ \E i \in DOMAIN fetches : FetchRejects(i)
    \/ \E i \in DOMAIN fetches : JsonResolves(i, "full")
    \/ \E i \in DOMAIN fetches : JsonRejects(i)
    \/ \E i \in DOMAIN mapsCalls : MapsFetchNotOk(i)
    \/ \E i \in DOMAIN mapsCalls : MapsFetchRejects(i)
    \/ \E i \in DOMAIN mapsCalls : MapsJsonResolves(i, Null)
    \/ \E i \in DOMAIN mapsCalls : MapsJsonRejects(i)

SpecClear == Init /\ [][NextClear]_vars

\* The aggregator, one location. A tick of the default TTL makes every
\* entry written before it stale.
NextSnapshot ==
    \/ Tick(CacheTTLDefault)
    \/ GetCompleteWeatherData(Home[1], Home[2])
    \/ \E i \in DOMAIN fetches : FetchNotOk(i)
    \/ \E i \in DOMAIN fetches : FetchRejects(i)
    \/ \E i \in DOMAIN fetches, shape \in Shapes : JsonResolves(i, shape)
    \/ \E i \in DOMAIN fetches : JsonRejects(i)

SpecSnapshot == Init /\ [][NextSnapshot]_vars

\* The aggregator's batch fan-out
BatchInputs ==
    UNION {[1..n -> Locations] : n \in 0..MaxSnapshots}

NextBatch ==
    \/ \E locations \in BatchInputs : GetBatchWeatherData(locations)
    \/ \E i \in DOMAIN fetches : FetchRejects(i)
    \/ \E i \in DOMAIN fetches, shape \in Shapes : JsonResolves(i, shape)

SpecBatch == Init /\ [][NextBatch]_vars

\* The imagery manifest cache alone, with the clock
NextMaps ==
    \/ \E d \in TimeSteps : Tick(d)
    \/ ClearMapsCacheLogged
    \/ GetAvailableMaps
    \/ \E i \in DOMAIN mapsCalls : MapsFetchNotOk(i)
    \/ \E i \in DOMAIN mapsCalls : MapsFetchRejects(i)
    \/ \E i \in DOMAIN mapsCalls : MapsJsonResolves(i, Null)
    \/ \E i \in DOMAIN mapsCalls : MapsJsonRejects(i)

SpecMaps == Init /\ [][NextMaps]_vars

\* The imagery timeline derived from the manifest
NextSeries ==
    \/ GetRadarTimestamps
    \/ GetRadarSeries
    \/ GetSatelliteSeries
    \/ \E i \in DOMAIN mapsCalls : MapsFetchRejects(i)
    \/ \E i \in DOMAIN mapsCalls, radar \in RadarSections : MapsJsonResolves(i, radar)

SpecSeries == Init /\ [][NextSeries]_vars

\* The geocoding calls and the cache
Queries == {"Paris", "Rome"}
Limits == {Null, Some(1), Some(5)}

NextGeocode ==
    \/ \E query \in Queries, limit \in Limits : SearchLocation(query, limit)
    \/ \E limit \in Limits : ReverseGeocode(Home[1], Home[2], limit)
    \/ \E i \in DOMAIN fetches : FetchRejects(i)
    \/ \E i \in DOMAIN fetches : JsonResolves(i, "full")

SpecGeocode == Init /\ [][NextGeocode]_vars

\* Page start-up
ApiKeys == {Null, Some(""), Some("owm-key")}

NextPage ==
    \/ \E api_key \in ApiKeys, radar \in BOOLEAN, satellite \in BOOLEAN,
          adapterScript \in BOOLEAN :
            LoadApiConfig(api_key, radar, satellite, adapterScript)
    \/ InitializeAPIs
    \/ \E api_key \in ApiKeys : AutoInitialize(api_key)
    \/ InitializeWeatherDisplay

SpecPage == Init /\ [][NextPage]_vars

\* The aggregator, single calls and batches, with a network that answers:
\* while requests are in flight, one of them is eventually completed
\* (response parsed and stored, or failure), so that every request issued is.
NextSettle ==
    \/ GetCompleteWeatherData(Home[1], Home[2])
    \/ \E n \in 0..MaxSnapshots : GetBatchWeatherData([i \in 1..n |-> Home])
    \/ \E i \in DOMAIN fetches : FetchRejects(i)
    \/ \E i \in DOMAIN fetches : JsonResolves(i, "full")

Completes ==
    \E i \in DOMAIN fetches : FetchRejects(i) \/ JsonResolves(i, "full")

SpecSettle ==
    /\ Init /\ [][NextSettle]_vars
    /\ WF_vars(Completes)

-----------------------------------------------------------------------------
(* Calls of the synchronous functions. They read their arguments only and   *)
(* leave both adapters as they are.                                         *)

adapters == <<now, cacheTTL, cache, fetches, snapshots, batches,
              rvCache, mapsCalls, clearLog, series, page>>

\* Condition identifiers, documented or not, and icon codes ('01d', '01n', none)
WeatherIds ==
    (199..233) \cup (299..322) \cup (499..532) \cup (599..623) \cup (700..805)
        \cup {-1, 0, 900, 1000}
IconCodes == {Null, Some(<<"0", "1", "d">>), Some(<<"0", "1", "n">>)}

MapOWMIconToWeathercom(weatherId, iconCode) ==
    /\ returned' = Some(<<"mapOWMIconToWeathercom",
                         [params |-> <<weatherId, iconCode>>,
                         value |-> mapOWMIconToWeathercom(weatherId, iconCode)]>>)
    /\ UNCHANGED adapters

\* aqi.main.aqi: a number, or missing
AqiInputs == {Null} \cup {Some(a) : a \in -2..8}

GetAQICategory(aqi) ==
    /\ returned' = Some(<<"_getAQICategory", [params |-> <<aqi>>,
                         value |-> getAQICategory(aqi)]>>)
    /\ UNCHANGED adapters

\* Air-pollution payloads: missing, without list, with an empty list, with a
\* reading without components, and with every combination of the four
\* concentrations compared
Concentrations == 0..2
Readings ==
    {[main |-> [aqi |-> Some(2)], components |-> Null]} \cup
    {[main |-> [aqi |-> Some(2)],
      components |-> Some([pm2_5 |-> a, pm10 |-> b, o3 |-> c, no2 |-> d,
                           so2 |-> 0, co |-> 0])] :
        a \in Concentrations, b \in Concentrations,
        c \in Concentrations, d \in Concentrations}
AirQualityPayloads ==
    {Null, Some([list |-> Null]), Some([list |-> Some(<< >>)])} \cup
    {Some([list |-> Some(<<r>>)]) : r \in Readings}

TransformAirQuality(owmAirQuality) ==
    /\ returned' = Some(<<"transformAirQuality", [params |-> <<owmAirQuality>>,
                         value |-> transformAirQuality(owmAirQuality)]>>)
    /\ UNCHANGED adapters

\* alert.tags: missing, or a list of strings
TagExtreme == <<"E", "x", "t", "r", "e", "m", "e">>
TagExtremeHeat == <<"E", "X", "T", "R", "E", "M", "E", " ", "h", "e", "a", "t">>
TagSevere == <<"S", "e", "v", "e", "r", "e">>
TagSevereStorm == <<"s", "e", "v", "e", "r", "e", " ", "s", "t", "o", "r", "m">>
TagSevereExtreme == <<"S", "e", "v", "e", "r", "e", "/", "E", "x", "t", "r", "e", "m", "e">>
TagFlood == <<"F", "l", "o", "o", "d">>
TagExtra == <<"E", "x", "t", "r", "a">>
AlertTags == {TagExtreme, TagExtremeHeat, TagSevere, TagSevereStorm,
              TagSevereExtreme, TagFlood, TagExtra}
TagLists == {Null} \cup {Some(l) : l \in UNION {[1..n -> AlertTags] : n \in 0..2}}

GetAlertSeverity(tags) ==
    /\ returned' = Some(<<"_getAlertSeverity", [params |-> <<tags>>,
                         value |-> getAlertSeverity(tags)]>>)
    /\ UNCHANGED adapters

\* The One Call payload with h hourly and d daily entries, nearest first
OneCallPayload(h, d) ==
    [hourly |-> [i \in 1..h |-> [dt |-> 3600 * i]],
     daily |-> [i \in 1..d |-> [dt |-> 86400 * i]]]

\* The return statement of getCompleteWeatherData, given the payload
ReturnCompleteWeatherData(oneCallData) ==
    /\ returned' = Some(<<"getCompleteWeatherData", [params |-> <<oneCallData>>,
                         value |-> CompleteWeatherData(oneCallData)]>>)
    /\ UNCHANGED adapters

\* Style options given to getRadarTileUrl: each missing or a number
TileSizes == {Null, Some(0), Some(100), Some(256), Some(512)}
TileColors == {Null} \cup {Some(c) : c \in -1..9}
TileSmooths == {Null} \cup {Some(f) : f \in 0..2}
TileOptions == [size : TileSizes, color : TileColors, smooth : TileSmooths]
TileCoordinates == {<<0, 0, 0>>, <<5, 9, 12>>}

GetRadarTileUrl(timestamp, z, x, y, options) ==
    /\ returned' = Some(<<"getRadarTileUrl",
                         [params |-> <<timestamp, z, x, y, options>>,
                         value |-> getRadarTileUrl(timestamp, z, x, y, options)]>>)
    /\ UNCHANGED adapters

\* Options given to createRadarTileLayer
LayerOptions ==
    [size : {Null, Some(512)}, color : {Null} \cup {Some(c) : c \in DOMAIN getColorSchemes},
     smooth : {Null, Some(0)}, opacity : {Null}, zIndex : {Null}]

CreateRadarTileLayer(timestamp, options) ==
    /\ returned' = Some(<<"createRadarTileLayer",
                         [params |-> <<timestamp, options>>,
                         value |-> createRadarTileLayer(timestamp, options)]>>)
    /\ UNCHANGED adapters

\* The normalization functions and the tile URL, on every input
NextTransform ==
    \/ \E weatherId \in WeatherIds, iconCode \in IconCodes :
            MapOWMIconToWeathercom(weatherId, iconCode)
    \/ \E aqi \in AqiInputs : GetAQICategory(aqi)
    \/ \E owmAirQuality \in AirQualityPayloads : TransformAirQuality(owmAirQuality)
    \/ \E tags \in TagLists : GetAlertSeverity(tags)
    \/ \E h \in {0, 1} \cup ((HourlyLimit - 1)..(HourlyLimit + 2)),
          d \in {0, 1} \cup ((DailyLimit - 1)..(DailyLimit + 2)) :
            ReturnCompleteWeatherData(OneCallPayload(h, d))
    \/ \E c \in TileCoordinates, options \in TileOptions :
            GetRadarTileUrl(100, c[1], c[2], c[3], options)
    \/ \E options \in LayerOptions : CreateRadarTileLayer(100, options)

SpecTransform == Init /\ [][NextTransform]_vars

-----------------------------------------------------------------------------
(* Properties *)

\* Call i's request fails in this step (non-2xx, transport or parse error)
Fails(i) ==
    /\ fetches[i].pc = "fetch"
    /\ fetches'[i].pc = "done"
    /\ ~IsNull(fetches'[i].error)

\* Call i's request succeeds in this step
Succeeds(i) ==
    /\ fetches[i].pc = "fetch"
    /\ fetches'[i].pc = "done"
    /\ IsNull(fetches'[i].error)

\* A call is made in this step (the direct calls start one fetch each)
Issues == Len(fetches') = Len(fetches) + 1

\* C1: stale fallback. A call that found an entry for its key that was not
\* fresh (of age TTL or more), and whose refresh request then fails, returns
\* that entry's value instead of failing, and a warning is emitted.
C1_StaleFallback ==
    \A i \in DOMAIN fetches :
        LET f == fetches[i] IN
        (f.pc = "done" /\ ~IsNull(f.error) /\ ~IsNull(f.cached))
            => /\ f.state = "fulfilled"
               /\ f.value = Some(The(f.cached).data)
               /\ f.warned

C1_Witness ==
    \E i \in DOMAIN fetches :
        LET f == fetches[i] IN
        /\ f.pc = "done" /\ ~IsNull(f.error) /\ ~IsNull(f.cached)
        /\ now - The(f.cached).timestamp > cacheTTL
        /\ f.state = "fulfilled" /\ f.warned

\* C2: freshness decides the network call. A call returns the stored value
\* without a request if and only if, when it is made, the store holds an
\* entry for the key with now - fetchedAt < ttl (the TTL then in force); an
\* entry of age exactly ttl causes a request.
C2_FreshnessDecidesRequest ==
    [][Issues =>
        LET f == fetches'[Len(fetches')]
            k == f.key
        IN  IF k \in DOMAIN cache /\ now - cache[k].timestamp < cacheTTL
            THEN /\ f.pc = "done" /\ f.state = "fulfilled"
                 /\ f.requests = 0
                 /\ f.value = Some(cache[k].data)
            ELSE /\ f.pc = "fetch" /\ f.state = "pending"
                 /\ f.requests = 1
                 /\ IsNull(f.value)]_vars

\* An entry of age exactly ttl was found and a request issued
C2_Witness ==
    \E i \in DOMAIN fetches :
        LET f == fetches[i] IN
        /\ f.pc = "fetch" /\ f.requests = 1
        /\ ~IsNull(f.cached)
        /\ CacheGet(cache, f.key) = f.cached
        /\ now - The(f.cached).timestamp = cacheTTL

C10_ClearThenNextCallPropagates ==
    /\ \A i \in DOMAIN fetches :
        LET f == fetches[i] IN
        /\ f.state = "fulfilled" => The(f.value) \notin f.purged
        /\ f.first => /\ f.requests = 1
                      /\ ~IsNull(f.error) => f.state = "rejected"
    /\ \A i \in DOMAIN mapsCalls :
        LET m == mapsCalls[i] IN
        /\ m.state = "fulfilled" => The(m.value) \notin m.purged
        /\ m.first => /\ m.requests = 1
                      /\ ~IsNull(m.error) => m.state = "rejected"

\* C10 as amended: as stated, except that the next getAvailableMaps call
\* whose request fails returns, instead of failing, the manifest another
\* getAvailableMaps call stored after the clear while the request was
\* pending, if there is one.
C10_ClearTakesEffect ==
    /\ \A i \in DOMAIN fetches :
        LET f == fetches[i] IN
        /\ f.state = "fulfilled" => The(f.value) \notin f.purged
        /\ f.first => /\ f.requests = 1
                      /\ ~IsNull(f.error) => f.state = "rejected"
    /\ \A i \in DOMAIN mapsCalls :
        LET m == mapsCalls[i] IN
        /\ m.state = "fulfilled" => The(m.value) \notin m.purged
        /\ m.first => /\ m.requests = 1
                      /\ ~IsNull(m.error) =>
                            \/ m.state = "rejected"
                            \/ /\ m.state = "fulfilled"
                               /\ m.warned
                               /\ The(m.value).seq > i

\* The next call after a clear that removed something failed and propagated
C10_Witness ==
    \E i \in DOMAIN fetches :
        LET f == fetches[i] IN
        /\ f.first /\ f.purged # {}
        /\ f.requests = 1
        /\ f.state = "rejected"

\* C5: batch alignment and isolation. A batch call is never rejected; once
\* fulfilled its result has the length of the input, and element i is the
\* snapshot of locations[i] if that location's snapshot call was fulfilled
\* and null if it was rejected, whatever happened to the other locations.
C5_BatchAlignedAndIsolated ==
    \A n \in DOMAIN batches :
        LET b == batches[n] IN
        /\ b.state # "rejected"
        /\ b.state = "fulfilled" =>
            /\ Len(The(b.value)) = Len(b.locations)
            /\ \A i \in DOMAIN b.locations :
                LET s == snapshots[b.members[i]]
                    e == The(b.value)[i]
                IN  /\ s.lat = b.locations[i][1] /\ s.lon = b.locations[i][2]
                    /\ s.state = "rejected" => IsNull(e)
                    /\ s.state = "fulfilled" =>
                        /\ e = s.value
                        /\ The(e).oneCall.url =
                             OneCallUrl(b.locations[i][1], b.locations[i][2])
                    /\ s.state # "pending"

\* The first of two locations failed, the second has its snapshot
C5_Witness ==
    \E n \in DOMAIN batches :
        LET b == batches[n] IN
        /\ b.state = "fulfilled"
        /\ Len(b.locations) = 2
        /\ b.locations[1] # b.locations[2]
        /\ IsNull(The(b.value)[1])
        /\ ~IsNull(The(b.value)[2])

\* C6: non-fatal air-quality failure. When the conditions/forecast fetch
\* returned a payload the normalization accepts and the air-quality fetch was
\* rejected (it failed and had no stale entry), the snapshot call is fulfilled
\* with the conditions of that payload and airQuality = null.
C6_AirQualityFailureNonFatal ==
    \A n \in DOMAIN snapshots :
        LET s == snapshots[n]
            one == fetches[s.oneCall]
            aq == fetches[s.airQuality]
        IN  (/\ one.state = "fulfilled"
             /\ The(one.value).shape = "full"
             /\ aq.state = "rejected")
                => /\ s.state = "fulfilled"
                   /\ The(s.value).oneCall = The(one.value)
                   /\ IsNull(The(s.value).airQuality)

C6_Witness ==
    \E n \in DOMAIN snapshots :
        LET s == snapshots[n] IN
        /\ fetches[s.oneCall].requests = 1
        /\ fetches[s.oneCall].state = "fulfilled"
        /\ fetches[s.airQuality].state = "rejected"
        /\ s.state = "fulfilled"
        /\ IsNull(The(s.value).airQuality)

\* C7: fatal conditions failure. When the conditions/forecast fetch is
\* rejected (it failed and had no stale entry), the snapshot call is rejected
\* with that same error, whether the air-quality fetch succeeded, failed or is
\* still pending; a fulfilled snapshot always carries the conditions payload
\* its own conditions fetch returned.
C7_ConditionsFailureFatal ==
    \A n \in DOMAIN snapshots :
        LET s == snapshots[n]
            one == fetches[s.oneCall]
        IN  /\ one.state = "rejected" =>
                /\ s.state = "rejected"
                /\ s.error = one.error
                /\ IsNull(s.value)
            /\ s.state = "fulfilled" =>
                /\ one.state = "fulfilled"
                /\ The(s.value).oneCall = The(one.value)
                /\ The(s.value).oneCall.shape = "full"

\* Rejected while the air-quality request is still in flight
C7_Witness ==
    \E n \in DOMAIN snapshots :
        LET s == snapshots[n] IN
        /\ s.state = "rejected"
        /\ fetches[s.oneCall].state = "rejected"
        /\ s.error = fetches[s.oneCall].error
        /\ fetches[s.airQuality].pc = "fetch"

\* C11: no in-flight de-duplication. A call made while the store has no
\* fresh entry for its key issues its own request even when a request for
\* the same key is already in flight; and when a fetch succeeds after
\* another fetch for the same key that also issued a request and succeeded,
\* the store then holds the later one's response, stamped with the time of
\* that later write, in place of the earlier one's.
C11_NoDeduplication ==
    [][/\ Issues =>
            LET f == fetches'[Len(fetches')] IN
            \A i \in DOMAIN fetches :
                (/\ fetches[i].key = f.key
                 /\ fetches[i].pc = "fetch"
                 /\ ~(/\ f.key \in DOMAIN cache
                      /\ now - cache[f.key].timestamp < cacheTTL))
                    => /\ f.requests = 1 /\ f.pc = "fetch"
                       /\ fetches'[i].requests = 1 /\ fetches'[i].pc = "fetch"
       /\ \A i, j \in DOMAIN fetches :
            (/\ i # j
             /\ fetches[i].key = fetches[j].key
             /\ fetches[i].pc = "done" /\ fetches[i].requests = 1
             /\ IsNull(fetches[i].error)
             /\ fetches[j].requests = 1
             /\ Succeeds(j))
                => /\ cache'[fetches[j].key] =
                        [data |-> The(fetches'[j].value), timestamp |-> now']
                   /\ The(fetches'[j].value) # The(fetches[i].value)]_vars

\* Two overlapping fetches for a key both issued a request and succeeded; the
\* one started first completed last and its response is what is stored.
C11_Witness ==
    \E i, j \in DOMAIN fetches :
        /\ i < j
        /\ fetches[i].key = fetches[j].key
        /\ IsNull(fetches[i].cached) /\ IsNull(fetches[j].cached)
        /\ fetches[i].requests = 1 /\ fetches[j].requests = 1
        /\ fetches[i].state = "fulfilled" /\ IsNull(fetches[i].error)
        /\ fetches[j].state = "fulfilled" /\ IsNull(fetches[j].error)
        /\ cache[fetches[i].key] = [data |-> The(fetches[i].value), timestamp |-> now]
        /\ now > 0

\* C12: no retries. A call of _fetchWithCache or getAvailableMaps issues at
\* most one request: the number of requests of a call never changes after
\* the call was made, and the step in which its request fails ends the call
\* (stale value served, or rejected).
C12_NoRetries ==
    [][/\ \A i \in DOMAIN fetches' : fetches'[i].requests \in {0, 1}
       /\ \A i \in DOMAIN mapsCalls' : mapsCalls'[i].requests \in {0, 1}
       /\ \A i \in DOMAIN fetches :
            /\ fetches'[i].requests = fetches[i].requests
            /\ fetches'[i] # fetches[i] =>
                    /\ fetches[i].pc = "fetch" /\ fetches'[i].pc = "done"
                    /\ ~IsNull(fetches'[i].error) =>
                            \/ fetches'[i].state = "rejected"
                            \/ /\ fetches'[i].state = "fulfilled"
                               /\ fetches'[i].value = Some(The(fetches[i].cached).data)
       /\ \A i \in DOMAIN mapsCalls :
            /\ mapsCalls'[i].requests = mapsCalls[i].requests
            /\ mapsCalls'[i] # mapsCalls[i] =>
                    /\ mapsCalls[i].pc = "fetch" /\ mapsCalls'[i].pc = "done"
                    /\ ~IsNull(mapsCalls'[i].error) =>
                            \/ mapsCalls'[i].state = "rejected"
                            \/ /\ mapsCalls'[i].state = "fulfilled"
                               /\ mapsCalls'[i].value = rvCache.maps]_vars

\* A failed _fetchWithCache call was rejected and a failed getAvailableMaps
\* call served the manifest held, each after one request
C12_Witness ==
    /\ \E i \in DOMAIN fetches :
            /\ fetches[i].pc = "done" /\ ~IsNull(fetches[i].error)
            /\ fetches[i].requests = 1 /\ fetches[i].state = "rejected"
    /\ \E i \in DOMAIN mapsCalls :
            /\ mapsCalls[i].pc = "done" /\ ~IsNull(mapsCalls[i].error)
            /\ mapsCalls[i].requests = 1 /\ mapsCalls[i].warned

\* C13: the manifest fetch. A getAvailableMaps call made while a manifest
\* fetched less than 5 minutes ago is held returns it with no request;
\* otherwise it issues a request. When the request succeeds the manifest is
\* stored with the time of the write and returned; when it fails the store
\* is left as it is and the call returns the manifest then held, whatever
\* its age, with a warning, or is rejected with the error when none is held.
C13_ManifestFetchContract ==
    [][/\ Len(mapsCalls') = Len(mapsCalls) + 1 =>
            LET m == mapsCalls'[Len(mapsCalls')] IN
            IF ~IsNull(rvCache.maps) /\ now - rvCache.timestamp < 5 * 60 * 1000
            THEN /\ m.pc = "done" /\ m.state = "fulfilled"
                 /\ m.requests = 0
                 /\ m.value = rvCache.maps
            ELSE /\ m.pc = "fetch" /\ m.state = "pending"
                 /\ m.requests = 1
       /\ \A i \in DOMAIN mapsCalls :
            (mapsCalls[i].pc = "fetch" /\ mapsCalls'[i].pc = "done") =>
                LET m == mapsCalls'[i] IN
                IF IsNull(m.error)
                THEN /\ m.state = "fulfilled"
                     /\ rvCache' = [maps |-> m.value, timestamp |-> now']
                     /\ The(m.value).seq = i
                ELSE /\ rvCache' = rvCache
                     /\ IF ~IsNull(rvCache.maps)
                        THEN /\ m.state = "fulfilled" /\ m.warned
                             /\ m.value = rvCache.maps
                        ELSE /\ m.state = "rejected" /\ IsNull(m.value)
                             /\ ~m.warned]_vars

\* A manifest older than 5 minutes was served after a failed refresh
C13_Witness ==
    \E i \in DOMAIN mapsCalls :
        LET m == mapsCalls[i] IN
        /\ m.warned /\ m.state = "fulfilled"
        /\ m.value = rvCache.maps
        /\ now - rvCache.timestamp > 5 * 60 * 1000

\* C14: getRadarTimestamps, whenever its manifest fetch returned a
\* manifest, is fulfilled (nothing is thrown) with all = the times of the
\* manifest's past frames followed by the times of its nowcast frames, each
\* in manifest order, and current = the time of the last past frame, or null
\* when there is no past frame (empty list, no past list, no radar section).
C14_RadarTimestamps ==
    \A n \in DOMAIN series :
        LET c == series[n]
            m == mapsCalls[c.maps]
        IN  (c.op = "getRadarTimestamps" /\ m.state = "fulfilled") =>
                LET radar == The(m.value).radar
                    P == IF IsNull(radar) \/ IsNull(The(radar).past)
                         THEN << >> ELSE The(The(radar).past)
                    N == IF IsNull(radar) \/ IsNull(The(radar).nowcast)
                         THEN << >> ELSE The(The(radar).nowcast)
                    r == The(c.value)
                IN  /\ c.state = "fulfilled"
                    /\ Len(r.all) = Len(P) + Len(N)
                    /\ \A i \in 1..Len(P) : r.all[i] = P[i].time
                    /\ \A i \in 1..Len(N) : r.all[Len(P) + i] = N[i].time
                    /\ r.current = IF Len(P) = 0 THEN Null ELSE Some(P[Len(P)].time)

\* Past [100, 200] and nowcast [300] give all = [100, 200, 300], current = 200
C14_Witness ==
    \E n \in DOMAIN series :
        /\ series[n].op = "getRadarTimestamps"
        /\ series[n].state = "fulfilled"
        /\ The(series[n].value).all = <<100, 200, 300>>
        /\ The(series[n].value).current = Some(200)
        /\ The(The(mapsCalls[series[n].maps].value).radar).nowcast = Some(<<[time |-> 300]>>)

\* C15: in the series getRadarSeries returns, for any manifest, no frame
\* flagged isPast = FALSE precedes a frame flagged isPast = TRUE, and frame i
\* is flagged isPast = TRUE exactly when it comes from the manifest's past
\* list (the first Len(past) frames of the series do).
C15_PastBeforeNowcast ==
    \A n \in DOMAIN series :
        LET c == series[n]
            m == mapsCalls[c.maps]
        IN  (c.op = "getRadarSeries" /\ c.state = "fulfilled") =>
                LET radar == The(m.value).radar
                    P == IF IsNull(radar) \/ IsNull(The(radar).past)
                         THEN << >> ELSE The(The(radar).past)
                    S == The(c.value).series
                IN  /\ \A i, j \in DOMAIN S :
                            (i < j /\ S[j].isPast) => S[i].isPast
                    /\ \A i \in DOMAIN S : S[i].isPast <=> (i <= Len(P))

\* C16: the snapshot has at most 48 hourly and at most 8 daily entries,
\* whatever number of entries the provider returned, and entry i of each list
\* is made from entry i of the provider's list (nearest interval first).
C16_ForecastLimits ==
    (~IsNull(returned) /\ The(returned)[1] = "getCompleteWeatherData") =>
        LET oneCallData == The(returned)[2].params[1]
            snapshot == The(returned)[2].value
        IN  /\ Len(snapshot.hourly) <= 48
            /\ Len(snapshot.daily) <= 8
            /\ \A i \in DOMAIN snapshot.hourly :
                    snapshot.hourly[i].validTimeLocal = <<"ISO", 1000 * oneCallData.hourly[i].dt>>
            /\ \A i \in DOMAIN snapshot.daily :
                    snapshot.daily[i].validTimeLocal = <<"ISO", 1000 * oneCallData.daily[i].dt>>

\* The provider returned 50 hourly and 10 daily entries; 48 and 8 are kept
C16_Witness ==
    /\ ~IsNull(returned) /\ The(returned)[1] = "getCompleteWeatherData"
    /\ Len(The(returned)[2].params[1].hourly) = 50
    /\ Len(The(returned)[2].params[1].daily) = 10
    /\ Len(The(returned)[2].value.hourly) = 48
    /\ Len(The(returned)[2].value.daily) = 8

\* C17: mapOWMIconToWeathercom returns a defined integer for every condition
\* identifier with the day suffix, the night suffix or no icon code, and the
\* sentinel 44 for every identifier that has no table entry.
C17_IconMappingTotal ==
    (~IsNull(returned) /\ The(returned)[1] = "mapOWMIconToWeathercom") =>
        LET weatherId == The(returned)[2].params[1]
            value == The(returned)[2].value
        IN  /\ ~IsNull(value)
            /\ The(value) \in 0..47
            /\ (~(\/ weatherId \in 200..202 \/ weatherId \in 210..212
                  \/ weatherId = 221 \/ weatherId \in 230..232
                  \/ weatherId \in 300..302 \/ weatherId \in 310..314 \/ weatherId = 321
                  \/ weatherId \in 500..504 \/ weatherId = 511
                  \/ weatherId \in 520..522 \/ weatherId = 531
                  \/ weatherId \in 600..602 \/ weatherId \in 611..613
                  \/ weatherId \in 615..616 \/ weatherId \in 620..622
                  \/ weatherId \in {701, 711, 721, 731, 741, 751, 761, 762, 771, 781}
                  \/ weatherId \in 800..804))
                    => value = Some(44)

\* An identifier outside the table, with the night suffix, gives 44
C17_Witness ==
    /\ ~IsNull(returned) /\ The(returned)[1] = "mapOWMIconToWeathercom"
    /\ The(returned)[2].params = <<900, Some(<<"0", "1", "n">>)>>
    /\ The(returned)[2].value = Some(44)

\* C18 as stated: severityCode is 4 when some tag contains "extreme" in any
\* letter case, else 3 when some tag contains "severe", else 2, also for an
\* empty and for an absent tag list.
C18_SeverityByTags ==
    (~IsNull(returned) /\ The(returned)[1] = "_getAlertSeverity") =>
        LET tags == IF IsNull(The(returned)[2].params[1]) THEN << >>
                    ELSE The(The(returned)[2].params[1])
            extreme == \E i \in DOMAIN tags :
                            tags[i] \in {TagExtreme, TagExtremeHeat, TagSevereExtreme}
            severe == \E i \in DOMAIN tags :
                            tags[i] \in {TagSevere, TagSevereStorm, TagSevereExtreme}
        IN  The(returned)[2].value = IF extreme THEN 4 ELSE IF severe THEN 3 ELSE 2

\* C18 as amended: as stated for every alert that has a tag list (an empty
\* one gives 2); an alert whose tag list is absent gets 3.
C18_SeverityByTagsOrAbsent ==
    (~IsNull(returned) /\ The(returned)[1] = "_getAlertSeverity") =>
        LET absent == IsNull(The(returned)[2].params[1])
            tags == IF absent THEN << >> ELSE The(The(returned)[2].params[1])
            extreme == \E i \in DOMAIN tags :
                            tags[i] \in {TagExtreme, TagExtremeHeat, TagSevereExtreme}
            severe == \E i \in DOMAIN tags :
                            tags[i] \in {TagSevere, TagSevereStorm, TagSevereExtreme}
        IN  /\ The(returned)[2].value \in {2, 3, 4}
            /\ The(returned)[2].value =
                    IF absent THEN 3
                    ELSE IF extreme THEN 4 ELSE IF severe THEN 3 ELSE 2

\* A "severe" tag followed by an upper-case "EXTREME" tag gives 4
C18_Witness ==
    /\ ~IsNull(returned) /\ The(returned)[1] = "_getAlertSeverity"
    /\ The(returned)[2].params[1] = Some(<<TagSevereStorm, TagExtremeHeat>>)
    /\ The(returned)[2].value = 4

\* C19: _getAQICategory gives Good, Fair, Moderate, Poor, Very Poor for the
\* indices 1..5 and "Unknown" for every other index and for a missing one.
C19_AQICategory ==
    (~IsNull(returned) /\ The(returned)[1] = "_getAQICategory") =>
        LET aqi == The(returned)[2].params[1] IN
        The(returned)[2].value =
            IF IsNull(aqi) THEN "Unknown"
            ELSE CASE The(aqi) = 1 -> "Good"
                   [] The(aqi) = 2 -> "Fair"
                   [] The(aqi) = 3 -> "Moderate"
                   [] The(aqi) = 4 -> "Poor"
                   [] The(aqi) = 5 -> "Very Poor"
                   [] OTHER -> "Unknown"

\* Index 0 gives "Unknown"
C19_Witness ==
    /\ ~IsNull(returned) /\ The(returned)[1] = "_getAQICategory"
    /\ The(returned)[2].params[1] = Some(0)
    /\ The(returned)[2].value = "Unknown"

\* C20: in the URL getRadarTileUrl builds, a size that is not a tile size
\* (256, 512), a color scheme outside 0..8 and a smoothing flag outside
\* {0, 1}, like a missing option, are replaced by the defaults 256, 1 and 1.
C20_InvalidStyleReplaced ==
    (~IsNull(returned) /\ The(returned)[1] = "getRadarTileUrl") =>
        LET options == The(returned)[2].params[5]
            url == The(returned)[2].value
        IN  /\ (IsNull(options.size) \/ The(options.size) \notin {256, 512})
                    => url.size = 256
            /\ (IsNull(options.color) \/ The(options.color) \notin 0..8)
                    => url.color = 1
            /\ (IsNull(options.smooth) \/ The(options.smooth) \notin {0, 1})
                    => url.smooth = 1

-----------------------------------------------------------------------------
(* Interleaved calls for one key *)

\* C21: under interleaving of calls for the same key, the outcome of a
\* failed request is decided by the store's content at the moment of the
\* failure, in both adapters: the call returns the entry stored for the key
\* at that moment, one written by a concurrent call included, and is rejected
\* with the error only if the store holds no entry for the key then.
C21_FailureDecidedAtFailureTime ==
    [][/\ \A i \in DOMAIN fetches : Fails(i) =>
            LET f == fetches'[i]
                stored == CacheGet(cache, f.key)
            IN  IF ~IsNull(stored)
                THEN f.state = "fulfilled" /\ f.value = Some(The(stored).data)
                ELSE f.state = "rejected" /\ IsNull(f.value)
       /\ \A i \in DOMAIN mapsCalls :
            (mapsCalls[i].pc = "fetch" /\ mapsCalls'[i].pc = "done"
                /\ ~IsNull(mapsCalls'[i].error)) =>
            LET m == mapsCalls'[i] IN
            IF ~IsNull(rvCache.maps)
            THEN m.state = "fulfilled" /\ m.value = rvCache.maps
            ELSE m.state = "rejected" /\ IsNull(m.value)]_vars

-----------------------------------------------------------------------------
(* Snapshots and what the cache keeps *)

\* C22: a snapshot failure is not sticky. When a getCompleteWeatherData call
\* for a location is made and the previous call for that location was
\* rejected, the new call issues a conditions/forecast request; and the store
\* never holds as a fresh entry a conditions/forecast payload from which no
\* snapshot can be built.
C22_SnapshotFailureNotSticky ==
    [][/\ Len(snapshots') = Len(snapshots) + 1 =>
            LET s == snapshots'[Len(snapshots')]
                before == {n \in DOMAIN snapshots :
                              snapshots[n].lat = s.lat /\ snapshots[n].lon = s.lon}
            IN  \A n \in before :
                    (n + 1 \notin before /\ snapshots[n].state = "rejected")
                        => fetches'[s.oneCall].requests = 1
       /\ \A l \in Locations :
            LET entry == CacheGet(cache', OneCallKey(l[1], l[2])) IN
            IsFresh(entry, now', cacheTTL') => The(entry).data.shape = "full"]_vars

\* C23: no fault confined to the air-quality data makes a snapshot fail.
\* When the conditions/forecast fetch returned a payload the normalization
\* accepts and the air-quality fetch has settled, the snapshot call is
\* fulfilled, with airQuality = null when the air-quality fetch was rejected
\* and when it returned a payload that cannot be normalized (a reading
\* without components).
C23_AirQualityFaultNonFatal ==
    \A n \in DOMAIN snapshots :
        LET s == snapshots[n]
            one == fetches[s.oneCall]
            aq == fetches[s.airQuality]
        IN  (/\ one.state = "fulfilled"
             /\ The(one.value).shape = "full"
             /\ Settled(aq))
                => /\ s.state = "fulfilled"
                   /\ (aq.state = "rejected" \/ The(aq.value).shape # "full")
                        => IsNull(The(s.value).airQuality)

-----------------------------------------------------------------------------
(* Cache keys *)

\* C24: a value served from the cache was stored by a request with the same
\* parameters as the call being served: a call that returns a stored entry
\* (fresh, or stale after a failed request) returns the response to its own
\* URL, so searchLocation and reverseGeocode never return a result fetched
\* for a different limit; and no two calls with different request URLs use
\* the same cache key.
C24_CacheKeyDeterminesRequest ==
    /\ \A i \in DOMAIN fetches :
        LET f == fetches[i] IN
        f.state = "fulfilled" => The(f.value).url = f.url
    /\ \A i, j \in DOMAIN fetches :
        fetches[i].key = fetches[j].key => fetches[i].url = fetches[j].url

-----------------------------------------------------------------------------
(* Normalization: icon codes and the primary pollutant *)

\* C25: for every condition identifier that has an entry in the mapping
\* table, mapOWMIconToWeathercom returns that entry's icon code (for 800-803
\* the night variant exactly when the icon code ends in "n", the day variant
\* otherwise); the sentinel 44 is returned only for identifiers that have no
\* entry.
C25_IconMappingReturnsEntry ==
    (~IsNull(returned) /\ The(returned)[1] = "mapOWMIconToWeathercom") =>
        LET weatherId == The(returned)[2].params[1]
            iconCode == The(returned)[2].params[2]
            value == The(returned)[2].value
            night == /\ ~IsNull(iconCode)
                     /\ The(iconCode)[Len(The(iconCode))] = "n"
        IN  /\ weatherId \in IconIds => value = Some(IconMap(night)[weatherId])
            /\ weatherId = 800 => value = Some(IF night THEN 31 ELSE 32)
            /\ weatherId = 801 => value = Some(IF night THEN 33 ELSE 30)
            /\ weatherId \in {802, 803} => value = Some(IF night THEN 27 ELSE 28)
            /\ value = Some(DefaultIconCode) => weatherId \notin IconIds

\* C26: transformAirQuality reports as primaryPollutant the pollutant with
\* the highest concentration among PM2.5, PM10, Ozone and NO2, for every
\* combination of the four concentrations: no other of the four exceeds the
\* concentration of the pollutant reported.
C26_PrimaryPollutantIsHighest ==
    (/\ ~IsNull(returned) /\ The(returned)[1] = "transformAirQuality"
     /\ ~IsNull(The(returned)[2].value.value)) =>
        LET result == The(The(returned)[2].value.value)
            p == result.pollutants
            reported == CASE result.primaryPollutant = "PM2.5" -> p.pm25
                          [] result.primaryPollutant = "PM10" -> p.pm10
                          [] result.primaryPollutant = "Ozone" -> p.o3
                          [] result.primaryPollutant = "NO2" -> p.no2
        IN  /\ result.primaryPollutant \in {"PM2.5", "PM10", "Ozone", "NO2"}
            /\ reported >= p.pm25 /\ reported >= p.pm10
            /\ reported >= p.o3 /\ reported >= p.no2

-----------------------------------------------------------------------------
(* Tile style options *)

\* C27: for every valid style value (each color scheme 0..8 listed by
\* getColorSchemes, smoothing flag 0 or 1, any given tile size),
\* getRadarTileUrl and createRadarTileLayer put exactly the requested value
\* in the URL; the defaults (color 1, smooth 1, size 256) are used only when
\* the option is absent.
C27_ValidStyleKept ==
    (/\ ~IsNull(returned)
     /\ The(returned)[1] \in {"getRadarTileUrl", "createRadarTileLayer"}) =>
        LET call == The(returned)[2]
            options == IF The(returned)[1] = "getRadarTileUrl"
                       THEN call.params[5] ELSE call.params[2]
            url == IF The(returned)[1] = "getRadarTileUrl"
                   THEN call.value ELSE call.value.url
        IN  /\ IF IsNull(options.color) THEN url.color = 1
               ELSE The(options.color) \in DOMAIN getColorSchemes
                        => url.color = The(options.color)
            /\ IF IsNull(options.smooth) THEN url.smooth = 1
               ELSE The(options.smooth) \in {0, 1}
                        => url.smooth = The(options.smooth)
            /\ IF IsNull(options.size) THEN url.size = 256
               ELSE The(options.size) > 0 => url.size = The(options.size)

-----------------------------------------------------------------------------
(* The satellite series *)

\* C28: getSatelliteSeries resolves whenever the manifest is available
\* (freshly fetched, cached, or stale after a failed refresh), to a series
\* with one entry per infrared frame of the manifest; it fails only when
\* getAvailableMaps fails: a rejected getSatelliteSeries call has made a
\* getAvailableMaps call that was rejected, with that call's error.
C28_SatelliteSeriesFailsOnlyWithManifest ==
    \A n \in DOMAIN series :
        LET c == series[n] IN
        (c.op = "getSatelliteSeries" /\ c.state = "rejected") =>
            /\ c.maps \in DOMAIN mapsCalls
            /\ mapsCalls[c.maps].state = "rejected"
            /\ c.error = mapsCalls[c.maps].error

-----------------------------------------------------------------------------
(* Termination of the aggregator's calls *)

\* C29: if every issued network request eventually completes (with success
\* or failure), every getCompleteWeatherData call and every
\* getBatchWeatherData call eventually settles; and a getBatchWeatherData
\* call is resolved only when every one of its per-location snapshot calls
\* has settled, never on the first one to finish or fail.
C29_CallsSettle ==
    /\ [](\A n \in DOMAIN batches :
            Settled(batches[n]) =>
                \A i \in DOMAIN batches[n].members :
                    Settled(snapshots[batches[n].members[i]]))
    /\ \A n \in 1..MaxSnapshots :
            (n \in DOMAIN snapshots) ~> (n \in DOMAIN snapshots /\ Settled(snapshots[n]))
    /\ \A n \in 1..MaxBatches :
            (n \in DOMAIN batches) ~> (n \in DOMAIN batches /\ Settled(batches[n]))

\* A batch of two locations still pending after its first member failed,
\* while the second member's requests are in flight
C29_Witness ==
    \E n \in DOMAIN batches :
        LET b == batches[n] IN
        /\ Len(b.members) = 2
        /\ b.state = "pending"
        /\ snapshots[b.members[1]].state = "rejected"
        /\ snapshots[b.members[2]].state = "pending"

-----------------------------------------------------------------------------
(* Adapter initialization *)

\* C30: whenever initializeAPIs() has returned true, areAPIsReady() holds
\* (weatherAPI is set, and radarAPI is set if the radar feature is enabled);
\* while the OpenWeatherMap key is empty a call returns false and weatherAPI
\* and radarAPI are left unset; the 'apisReady' event is dispatched only in a
\* step whose initialization returned true, and the weather display has
\* started only with weatherAPI set.
C30_InitializationContract ==
    /\ [](/\ page.lastInit = Some(TRUE) => areAPIsReady(page)
          /\ areAPIsReady(page) =>
                /\ ~IsNull(page.weatherAPI)
                /\ page.radar => ~IsNull(page.radarAPI)
          /\ (page.openWeatherMapKey = "" /\ ~IsNull(page.lastInit)) =>
                /\ page.lastInit = Some(FALSE)
                /\ IsNull(page.weatherAPI) /\ IsNull(page.radarAPI)
          /\ page.dispatched => ~IsNull(page.weatherAPI)
          /\ page.display = "started" => areAPIsReady(page))
    /\ [][(page'.dispatched /\ ~page.dispatched) =>
                (page'.lastInit = Some(TRUE) /\ areAPIsReady(page'))]_vars

\* The display waited for the event and was started by it, with the radar
\* feature enabled and both adapters set
C30_Witness ==
    /\ page.display = "started" /\ page.dispatched
    /\ page.radar /\ ~page.satellite
    /\ page.lastInit = Some(TRUE)
    /\ ~IsNull(page.weatherAPI) /\ ~IsNull(page.radarAPI)

=============================================================================
